---- MODULE Spec2Model ----
(***************************************************************************)
(* WEM3080 energy monitor (M5StickC Plus + RS485 HAT): the Modbus RTU      *)
(* client of WEM3080_M5StickCPlus.ino.  The model covers modbusCalcCRC16,  *)
(* modbusSendRequest, modbusReadResponse, readWEM3080 and handleJson, the  *)
(* UART receive queue they read, and a slave that answers (or not) with    *)
(* frames of its choosing at times of its choosing.                        *)
(***************************************************************************)
EXTENDS Integers, Sequences, FiniteSets, TLC

(***************************************************************************)
(* Program constants                                                       *)
(***************************************************************************)
MODBUS_SLAVE_ID  == 1
MODBUS_REG_START == 72
MODBUS_REG_COUNT == 9
MODBUS_TIMEOUT   == 1000
BufSize          == 128
MaxRegs          == 16
SettleMs         == 10
TurnaroundMs     == 5
READ_INTERVAL    == 3000
SetupMs          == 2000
LoopDelayMs      == 10
API_KEY          == "5C0E8BF2"

(***************************************************************************)
(* Bounds of the model                                                     *)
(***************************************************************************)
MaxPolls  == 2
MaxCrcLen == 3
MaxIdleLoops == 2
MaxQueue  == 2

(***************************************************************************)
(* Fixed-width integer helpers                                             *)
(***************************************************************************)
RECURSIVE Pow2(_)
Pow2(n) == IF n = 0 THEN 1 ELSE 2 * Pow2(n - 1)

RECURSIVE Xor(_, _)
Xor(a, b) ==
  IF a = 0 THEN b
  ELSE IF b = 0 THEN a
  ELSE (((a % 2) + (b % 2)) % 2) + 2 * Xor(a \div 2, b \div 2)

RECURSIVE Or(_, _)
Or(a, b) ==
  IF a = 0 THEN b
  ELSE IF b = 0 THEN a
  ELSE (IF a % 2 = 1 \/ b % 2 = 1 THEN 1 ELSE 0) + 2 * Or(a \div 2, b \div 2)

U16(x) == x % 65536
Hi8(w) == (w \div 256) % 256
Lo8(w) == w % 256

RECURSIVE Gcd(_, _)
Gcd(a, b) == IF b = 0 THEN a ELSE Gcd(b, a % b)

Abs(x) == IF x < 0 THEN -x ELSE x

\* A float value, kept exact: the quotient n/d in lowest terms, <<numerator, denominator>>.
Frac(n, d) ==
  LET g == Gcd(Abs(n), d) IN <<n \div g, d \div g>>

Zero == Frac(0, 1)

\* unsigned long, 32 bits, as << high 16 bits, low 16 bits >>.
W32(n) == << (n \div 65536) % 65536, n % 65536 >>

\* a + d modulo 2^32, for 0 <= d < 2^16.
Add32(a, d) ==
  LET lo == a[2] + d
  IN  << (a[1] + (lo \div 65536)) % 65536, lo % 65536 >>

\* Mutant of Sub32: the borrow out of the low word is dropped.
Sub32_NoBorrow(a, b) == << (a[1] - b[1] + 65536) % 65536, (a[2] - b[2] + 65536) % 65536 >>

\* a - b modulo 2^32.
Sub32(a, b) ==
  LET borrow == IF a[2] < b[2] THEN 1 ELSE 0
  IN  << (a[1] - b[1] - borrow + 65536) % 65536, (a[2] - b[2] + 65536) % 65536 >>

\* a >= c for a 32-bit a and 0 <= c < 2^16.
Geq32(a, c) == a[1] > 0 \/ a[2] >= c

(***************************************************************************)
(* modbusCalcCRC16                                                         *)
(***************************************************************************)
\* The inner loop: j more rounds of shift right, XOR 0xA001 when a 1 is shifted out.
\* Each round assigns crc: c is that value, the next round starts from it.
RECURSIVE CrcShift(_, _)
CrcShift(crc, j) ==
  IF j = 0 THEN crc
  ELSE CHOOSE r \in { CrcShift(c, j - 1) :
                        c \in { IF crc % 2 = 1 THEN Xor(crc \div 2, 40961)
                                               ELSE crc \div 2 } } : TRUE

\* The outer loop from buf[i] on (1-based), crc ^= buf[i] first; crc is a uint16_t.
RECURSIVE CrcFold(_, _, _)
CrcFold(crc, buf, i) ==
  IF i > Len(buf) \/ crc > 65535 THEN crc
  ELSE CHOOSE r \in { CrcFold(c, buf, i + 1) :
                        c \in { CrcShift(Xor(crc, buf[i]), 8) } } : TRUE

\* Mutant of modbusCalcCRC16: the seed is 0 instead of 0xFFFF.
modbusCalcCRC16_ZeroSeed(buf) == CrcFold(0, buf, 1)

modbusCalcCRC16(buf) == CrcFold(65535, buf, 1)

(***************************************************************************)
(* modbusSendRequest: the 8-byte request frame                             *)
(***************************************************************************)
RequestHeader(slaveId, regAddr, regCount) ==
  << slaveId, 3, Hi8(regAddr), Lo8(regAddr), Hi8(regCount), Lo8(regCount) >>

RequestFrame(slaveId, regAddr, regCount) ==
  LET hdr == RequestHeader(slaveId, regAddr, regCount)
      crc == modbusCalcCRC16(hdr)
  IN  hdr \o << Lo8(crc), Hi8(crc) >>

(***************************************************************************)
(* modbusReadResponse: the checks and the register extraction              *)
(***************************************************************************)
\* buf[1] & 0x80 (C index 1 is the second byte).
IsException(bytes) == (bytes[2] \div 128) % 2 = 1

ByteCount(bytes) == bytes[3]

TotalLen(bytes) == U16(3 + ByteCount(bytes) + 2)

\* Mutant of TooLarge: the length check is missing.
TooLarge_Unchecked(bytes) == FALSE

TooLarge(bytes) == TotalLen(bytes) > BufSize

RxCrc(bytes, totalLen) == U16(Or(bytes[totalLen - 1], bytes[totalLen] * 256))

\* Mutant of CrcOk: only the low CRC byte is compared.
CrcOk_LowByteOnly(bytes, totalLen) ==
  Lo8(RxCrc(bytes, totalLen)) = Lo8(modbusCalcCRC16(SubSeq(bytes, 1, totalLen - 2)))

CrcOk(bytes, totalLen) ==
  RxCrc(bytes, totalLen) = modbusCalcCRC16(SubSeq(bytes, 1, totalLen - 2))

NumRegs(bytes, maxRegs) ==
  LET numRegs == ByteCount(bytes) \div 2
  IN  IF numRegs > maxRegs THEN maxRegs ELSE numRegs

\* regs[i] = (buf[3 + i*2] << 8) | buf[3 + i*2 + 1], i = 0 .. numRegs-1.
ExtractRegs(bytes, numRegs) ==
  [i \in 1..numRegs |-> U16(Or(bytes[3 + (i - 1) * 2 + 1] * 256, bytes[3 + (i - 1) * 2 + 2]))]

(***************************************************************************)
(* readWEM3080: the register decoder                                       *)
(***************************************************************************)
\* ((uint32_t)hiWord << 16) | loWord: 16 + 16 bits, nothing is shifted out.
Raw32(hiWord, loWord) == Or(hiWord * 65536, loWord)

DecVoltage(regs)     == Frac(regs[1], 100)
DecCurrent(regs)     == Frac(regs[2], 100)
DecRawPower(regs)    == regs[3]
DecFwdEnergy(regs)   == Frac(Raw32(regs[4], regs[5]), 800)
DecPowerFactor(regs) == Frac(regs[6], 1000)
DecRevEnergy(regs)   == Frac(Raw32(regs[7], regs[8]), 800)
\* Mutant of DecReverse: the whole register is tested, not its high byte.
DecReverse_WholeWord(regs) == regs[9] # 0

DecReverse(regs)     == (regs[9] \div 256) # 0
DecPower(regs)       == IF DecReverse(regs) THEN Frac(-DecRawPower(regs), 1)
                                            ELSE Frac(DecRawPower(regs), 1)
\* if (mFrequency == 0) mFrequency = 50.0f;
DecFrequency(freq)   == IF freq = Zero THEN Frac(50, 1) ELSE freq

(***************************************************************************)
(* handleJson: printf formatting of a float with a fixed number of         *)
(* decimals, as the integer count of units of 10^-digits                   *)
(***************************************************************************)
RECURSIVE Pow10(_)
Pow10(n) == IF n = 0 THEN 1 ELSE 10 * Pow10(n - 1)

Fmt(v, digits) ==
  LET whole == Abs(v[1]) \div v[2]
      rest  == Abs(v[1]) % v[2]
      q     == whole * Pow10(digits) + (2 * rest * Pow10(digits) + v[2]) \div (2 * v[2])
  IN  IF v[1] < 0 THEN -q ELSE q

\* Mutant of Masked: the stored value is printed whatever the validity flag.
Masked_Never(valid, x) == x

\* mValid ? x : 0
Masked(valid, x) == IF valid THEN x ELSE Zero

JsonBody(valid, voltage, current, power, fwd, rev, pf, freq, reverse, reads, errors, heap, rssi) ==
  [ voltage      |-> Fmt(Masked(valid, voltage), 1),
    current      |-> Fmt(Masked(valid, current), 2),
    power        |-> Fmt(Masked(valid, power), 0),
    fwd_energy   |-> Fmt(Masked(valid, fwd), 3),
    rev_energy   |-> Fmt(Masked(valid, rev), 3),
    power_factor |-> Fmt(Masked(valid, pf), 3),
    frequency    |-> Fmt(Masked(valid, freq), 1),
    direction    |-> IF reverse THEN "reverse" ELSE "forward",
    valid        |-> valid,
    reads        |-> reads,
    errors       |-> errors,
    heap         |-> heap,
    rssi         |-> rssi ]

\* checkApiKey: server.hasArg("key") && server.arg("key") == API_KEY
checkApiKey(key) == key = API_KEY

(***************************************************************************)
(* The slave: the response frames it may put on the bus                    *)
(***************************************************************************)
\* Each frame is slave id, function code, byte count, payload (registers
\* high byte first, then filler), CRC low byte, CRC high byte.

\* 9 registers 24000, 1000, 1500, 0, 40000, 950, 0, 20000, 0.
GoodA ==
  << 1, 3, 18, 93, 192, 3, 232, 5, 220, 0, 0, 156, 64, 3, 182, 0, 0, 78, 32,
     0, 0, 212, 90 >>

\* 9 registers 23050, 725, 1640, 1, 8, 1000, 2, 16, 256 (reverse flow).
GoodB ==
  << 1, 3, 18, 90, 10, 2, 213, 6, 104, 0, 1, 0, 8, 3, 232, 0, 2, 0, 16, 1, 0,
     216, 137 >>

\* GoodB with a bit of the low CRC byte flipped on the line.
BadCrcLo ==
  << 1, 3, 18, 90, 10, 2, 213, 6, 104, 0, 1, 0, 8, 3, 232, 0, 2, 0, 16, 1, 0,
     217, 137 >>

\* GoodB with a bit of the high CRC byte flipped on the line.
BadCrcHi ==
  << 1, 3, 18, 90, 10, 2, 213, 6, 104, 0, 1, 0, 8, 3, 232, 0, 2, 0, 16, 1, 0,
     216, 9 >>

\* Exception response: function code 0x83, exception code 2.
ExceptionReply ==
  << 1, 131, 2, 192, 241 >>

\* Byte count 0.
NoRegs ==
  << 1, 3, 0, 32, 240 >>

\* Byte count 16: 8 registers.
Regs8 ==
  << 1, 3, 16, 90, 10, 2, 213, 6, 104, 0, 1, 0, 8, 3, 232, 0, 2, 0, 16, 124,
     130 >>

\* Byte count 19: 9 registers and one byte more.
Odd19 ==
  << 1, 3, 19, 90, 10, 2, 213, 6, 104, 0, 1, 0, 8, 3, 232, 0, 2, 0, 16, 1, 0,
     133, 117, 40 >>

\* Byte count 20: 10 registers.
Regs10 ==
  << 1, 3, 20, 90, 10, 2, 213, 6, 104, 0, 1, 0, 8, 3, 232, 0, 2, 0, 16, 1, 0,
     133, 140, 158, 245 >>

\* Byte count 34: 17 registers, one more than regs[16] holds.
Regs17 ==
  << 1, 3, 34, 90, 10, 2, 213, 6, 104, 0, 1, 0, 8, 3, 232, 0, 2, 0, 16, 1, 0,
     133, 140, 147, 154, 161, 168, 175, 182, 189, 196, 203, 210, 217, 224,
     231, 238, 111, 142 >>

\* Byte count 123: 3 + 123 + 2 = 128 bytes, the whole receive buffer.
Full123 ==
  << 1, 3, 123, 90, 10, 2, 213, 6, 104, 0, 1, 0, 8, 3, 232, 0, 2, 0, 16, 1,
     0, 133, 140, 147, 154, 161, 168, 175, 182, 189, 196, 203, 210, 217, 224,
     231, 238, 245, 252, 3, 10, 17, 24, 31, 38, 45, 52, 59, 66, 73, 80, 87,
     94, 101, 108, 115, 122, 129, 136, 143, 150, 157, 164, 171, 178, 185,
     192, 199, 206, 213, 220, 227, 234, 241, 248, 255, 6, 13, 20, 27, 34, 41,
     48, 55, 62, 69, 76, 83, 90, 97, 104, 111, 118, 125, 132, 139, 146, 153,
     160, 167, 174, 181, 188, 195, 202, 209, 216, 223, 230, 237, 244, 251, 2,
     9, 16, 23, 30, 37, 44, 51, 58, 65, 72, 79, 86, 93, 225, 30 >>

\* Byte count 124: 3 + 124 + 2 = 129 bytes, one more than the buffer.
Over124 ==
  << 1, 3, 124, 90, 10, 2, 213, 6, 104, 0, 1, 0, 8, 3, 232, 0, 2, 0, 16, 1,
     0, 133, 140, 147, 154, 161, 168, 175, 182, 189, 196, 203, 210, 217, 224,
     231, 238, 245, 252, 3, 10, 17, 24, 31, 38, 45, 52, 59, 66, 73, 80, 87,
     94, 101, 108, 115, 122, 129, 136, 143, 150, 157, 164, 171, 178, 185,
     192, 199, 206, 213, 220, 227, 234, 241, 248, 255, 6, 13, 20, 27, 34, 41,
     48, 55, 62, 69, 76, 83, 90, 97, 104, 111, 118, 125, 132, 139, 146, 153,
     160, 167, 174, 181, 188, 195, 202, 209, 216, 223, 230, 237, 244, 251, 2,
     9, 16, 23, 30, 37, 44, 51, 58, 65, 72, 79, 86, 93, 100, 96, 228 >>

\* Byte count 255 announced, the frame broken off after two more bytes.
Over255 ==
  << 1, 3, 255, 0, 0 >>

\* The registers of GoodA in a frame from slave 2, its CRC right.
OtherSlave ==
  << 2, 3, 18, 93, 192, 3, 232, 5, 220, 0, 0, 156, 64, 3, 182, 0, 0, 78, 32,
     0, 0, 231, 105 >>

\* The registers of GoodA under function code 0x04, its CRC right.
OtherFc ==
  << 1, 4, 18, 93, 192, 3, 232, 5, 220, 0, 0, 156, 64, 3, 182, 0, 0, 78, 32,
     0, 0, 97, 237 >>

Frames ==
  { GoodA, GoodB, BadCrcLo, BadCrcHi, ExceptionReply, NoRegs, Regs8, Odd19, Regs10,
    Regs17, Full123, Over124, Over255, OtherSlave, OtherFc }

\* The receive driver hands bytes over in bursts; a frame of n bytes may be cut
\* after any of these byte counts.
CutPoints(n) == { k \in {1, 2, 3, 4, n - 1, n} : 1 <= k /\ k <= n }

\* Clock steps between two iterations of a read loop.
TickSteps == { 1000, 1001 }

(***************************************************************************)
(* State                                                                   *)
(***************************************************************************)
VARIABLES
  pc,            \* where the control loop is: idle, or a step of readWEM3080
  rx,            \* RS485 receive queue: <<byte, arrival epoch>>, oldest first
  buf,           \* modbusReadResponse: buf[0 .. idx-1], with each byte's epoch
  now,           \* millis(), counted from the end of the request's transmission
  startMs,       \* modbusReadResponse: startMs
  regs,          \* readWEM3080: regs[0 .. n-1] as written by modbusReadResponse
  result,        \* the line the poll logged: none, Ok or the failure kind
  mVoltage, mCurrent, mPower, mFwdEnergy, mRevEnergy, mPowerFactor, mFrequency,
  mPowerReverse, mValid, mErrorCount, mReadCount,
  txCount,       \* request frames transmitted so far
  txFrame,       \* the last request frame written to the bus
  wireFrame,     \* the frame the slave is sending, << >> when none
  wireSent,      \* how many of its bytes have reached the receive queue
  repliedTo,     \* the number of the last request the slave has answered
  json,          \* the last /json response
  entryMs,       \* history: millis() on entry to modbusReadResponse
  snap,          \* history: measurements and error count when the poll started
  pollsStarted,  \* history: calls of readWEM3080
  pollsFailed,   \* history: polls that logged a failure
  crcIn, crcOut, crcChk,  \* CRC engine on its own: input, result, verdict
  ms,            \* millis() as loop() reads it: 32 bits, << high word, low word >>
  lastRead,      \* loop: lastRead, 32 bits
  sincePoll,     \* history: ms really elapsed since the instant lastRead holds
  pollGap,       \* history: sincePoll at the instant the last poll was stamped
  idleLoops,     \* history: passes of loop() since then that started no poll
  lastOk,        \* history: whether the last completed poll stored a reading
  lastRegs       \* history: the 9 registers the last successful poll decoded

meas == << mVoltage, mCurrent, mPower, mFwdEnergy, mRevEnergy, mPowerFactor,
           mFrequency, mPowerReverse >>

store == << mVoltage, mCurrent, mPower, mFwdEnergy, mRevEnergy, mPowerFactor,
            mFrequency, mPowerReverse, mValid, mErrorCount, mReadCount >>

locals == << buf, now, startMs, regs, result, entryMs >>

bus == << rx, wireFrame, wireSent, repliedTo >>

hist == << snap, pollsStarted, pollsFailed >>

crcVars == << crcIn, crcOut, crcChk >>

sched == << ms, lastRead, sincePoll, pollGap, idleLoops >>

last == << lastOk, lastRegs >>

vars == << pc, rx, buf, now, startMs, regs, result,
           mVoltage, mCurrent, mPower, mFwdEnergy, mRevEnergy, mPowerFactor,
           mFrequency, mPowerReverse, mValid, mErrorCount, mReadCount,
           txCount, txFrame, wireFrame, wireSent, repliedTo, json,
           entryMs, snap, pollsStarted, pollsFailed, crcIn, crcOut, crcChk,
           ms, lastRead, sincePoll, pollGap, idleLoops, lastOk, lastRegs >>

Bytes(b) == [i \in 1..Len(b) |-> b[i][1]]

InitProgram ==
  /\ pc = "idle"
  /\ rx = << >>
  /\ buf = << >>
  /\ now = 0
  /\ startMs = 0
  /\ regs = << >>
  /\ result = "none"
  /\ mVoltage = Zero
  /\ mCurrent = Zero
  /\ mPower = Zero
  /\ mFwdEnergy = Zero
  /\ mRevEnergy = Zero
  /\ mPowerFactor = Zero
  /\ mFrequency = Zero
  /\ mPowerReverse = FALSE
  /\ mValid = FALSE
  /\ mErrorCount = 0
  /\ mReadCount = 0
  /\ txCount = 0
  /\ txFrame = << >>
  /\ wireFrame = << >>
  /\ wireSent = 0
  /\ repliedTo = 0
  /\ json = [status |-> 0]
  /\ entryMs = 0
  /\ snap = << meas, 0 >>
  /\ pollsStarted = 0
  /\ pollsFailed = 0
  /\ crcIn = << >>
  /\ crcOut = -1
  /\ crcChk = "none"
  /\ pollGap = -1
  /\ idleLoops = 0
  /\ lastOk = FALSE
  /\ lastRegs = << >>

\* setup() has returned: delay(2000) and the WiFi connection lie behind.
Init ==
  /\ InitProgram
  /\ ms = W32(SetupMs)
  /\ lastRead = W32(0)
  /\ sincePoll = SetupMs

(***************************************************************************)
(* readWEM3080 and the two functions it calls, step by step                *)
(***************************************************************************)
\* Mutant of CountRead: the attempt is counted only from the second poll on.
CountRead_Late == mReadCount' = IF txCount = 0 THEN mReadCount ELSE mReadCount + 1

\* loop() calls readWEM3080: mReadCount++.
CountRead == mReadCount' = mReadCount + 1

\* readWEM3080 is entered.
EnterRead ==
  /\ CountRead
  /\ pc' = "flush"
  /\ buf' = << >> /\ regs' = << >> /\ result' = "none"
  /\ now' = 0 /\ startMs' = 0 /\ entryMs' = 0
  /\ json' = [status |-> 0]
  /\ snap' = << meas, mErrorCount >>
  /\ pollsStarted' = pollsStarted + 1
  /\ UNCHANGED << meas, mValid, mErrorCount, txCount, txFrame, bus, pollsFailed,
                  crcVars, last >>

\* A frame takes about 1 ms per byte on the line and polls are 3000 ms apart:
\* no frame is half-way through arriving when a poll starts.
StartPoll ==
  /\ pc = "idle"
  /\ pollsStarted < MaxPolls
  /\ wireFrame = << >>
  /\ EnterRead
  /\ UNCHANGED sched

\* while (RS485.available()) RS485.read();
FlushStep ==
  /\ pc = "flush"
  /\ IF rx # << >> THEN rx' = Tail(rx) /\ pc' = pc
                   ELSE rx' = rx /\ pc' = "settle"
  /\ UNCHANGED << store, locals, txCount, txFrame, wireFrame, wireSent, repliedTo,
                  json, hist, crcVars, sched, last >>

\* delay(10)
Settle ==
  /\ pc = "settle"
  /\ pc' = "write"
  /\ UNCHANGED << store, locals, bus, txCount, txFrame, json, hist, crcVars, sched, last >>

\* RS485.write(frame, 8); RS485.flush();
Write ==
  /\ pc = "write"
  /\ txFrame' = RequestFrame(MODBUS_SLAVE_ID, MODBUS_REG_START, MODBUS_REG_COUNT)
  /\ txCount' = txCount + 1
  /\ now' = 0
  /\ pc' = "turnaround"
  /\ UNCHANGED << store, buf, startMs, regs, result, entryMs, bus, json, hist, crcVars, sched, last >>

\* delay(5), then modbusReadResponse is entered: startMs = millis().
Turnaround ==
  /\ pc = "turnaround"
  /\ now' = now + TurnaroundMs
  /\ startMs' = now'
  /\ entryMs' = now'
  /\ pc' = "header"
  /\ UNCHANGED << store, buf, regs, result, bus, txCount, txFrame, json, hist, crcVars, sched, last >>

\* Mutant of TimedOut: the deadline is counted from the end of the transmission
\* plus twice the turnaround delay.
TimedOut_Late(t, start) == t - (start + TurnaroundMs) > MODBUS_TIMEOUT

\* Mutant of TimedOut: the deadline never passes.
TimedOut_Never(t, start) == FALSE

\* millis() - startMs > MODBUS_TIMEOUT
TimedOut(t, start) == t - start > MODBUS_TIMEOUT

\* if (RS485.available()) buf[idx++] = RS485.read();
ReadByte(b, q) == IF q # << >> THEN Append(b, Head(q)) ELSE b
TakeByte(q)    == IF q # << >> THEN Tail(q) ELSE q

\* Mutant of FailStore: the failure path also zeroes the stored measurements.
FailStore_Zeroing ==
  /\ mValid' = FALSE
  /\ mErrorCount' = mErrorCount + 1
  /\ mVoltage' = Zero /\ mCurrent' = Zero /\ mPower' = Zero
  /\ mFwdEnergy' = Zero /\ mRevEnergy' = Zero /\ mPowerFactor' = Zero
  /\ UNCHANGED << mFrequency, mPowerReverse, mReadCount >>

\* if (n < MODBUS_REG_COUNT) { mValid = false; mErrorCount++; return; }
FailStore ==
  /\ mValid' = FALSE
  /\ mErrorCount' = mErrorCount + 1
  /\ UNCHANGED << meas, mReadCount >>

PollFail(kind) ==
  /\ result' = kind
  /\ FailStore
  /\ pollsFailed' = pollsFailed + 1
  /\ lastOk' = FALSE
  /\ lastRegs' = lastRegs
  /\ pc' = "done"

\* One iteration of while (idx < 3).
HeaderIter ==
  /\ pc = "header"
  /\ buf' = ReadByte(buf, rx)
  /\ rx' = TakeByte(rx)
  /\ IF TimedOut(now, startMs)
       THEN PollFail("HeaderTimeout")
       ELSE /\ pc' = IF Len(buf') < 3 THEN "header" ELSE "parse"
            /\ UNCHANGED << store, result, pollsFailed, last >>
  /\ UNCHANGED << now, startMs, regs, entryMs, txCount, txFrame, wireFrame, wireSent,
                  repliedTo, json, snap, pollsStarted, crcVars, sched >>

\* The header checks: exception response, response too large.
ParseHeader ==
  /\ pc = "parse"
  /\ IF IsException(Bytes(buf)) THEN PollFail("Exception")
     ELSE IF TooLarge(Bytes(buf)) THEN PollFail("TooLarge")
     ELSE /\ pc' = "body"
          /\ UNCHANGED << store, result, pollsFailed, last >>
  /\ UNCHANGED << buf, now, startMs, regs, entryMs, bus, txCount, txFrame, json,
                  snap, pollsStarted, crcVars, sched >>

\* One iteration of while (idx < totalLen).
BodyIter ==
  /\ pc = "body"
  /\ buf' = ReadByte(buf, rx)
  /\ rx' = TakeByte(rx)
  /\ IF TimedOut(now, startMs)
       THEN PollFail("BodyTimeout")
       ELSE /\ pc' = IF Len(buf') < TotalLen(Bytes(buf)) THEN "body" ELSE "verify"
            /\ UNCHANGED << store, result, pollsFailed, last >>
  /\ UNCHANGED << now, startMs, regs, entryMs, txCount, txFrame, wireFrame, wireSent,
                  repliedTo, json, snap, pollsStarted, crcVars, sched >>

\* Mutant of StoreReading: the current is not stored.
StoreReading_KeepCurrent(r) ==
  /\ mVoltage' = DecVoltage(r)
  /\ mFwdEnergy' = DecFwdEnergy(r)
  /\ mPowerFactor' = DecPowerFactor(r)
  /\ mRevEnergy' = DecRevEnergy(r)
  /\ mPowerReverse' = DecReverse(r)
  /\ mPower' = DecPower(r)
  /\ mFrequency' = DecFrequency(mFrequency)
  /\ mValid' = TRUE
  /\ UNCHANGED << mCurrent, mErrorCount, mReadCount >>

\* Parse main registers ... mValid = true;
StoreReading(r) ==
  /\ mVoltage' = DecVoltage(r)
  /\ mCurrent' = DecCurrent(r)
  /\ mFwdEnergy' = DecFwdEnergy(r)
  /\ mPowerFactor' = DecPowerFactor(r)
  /\ mRevEnergy' = DecRevEnergy(r)
  /\ mPowerReverse' = DecReverse(r)
  /\ mPower' = DecPower(r)
  /\ mFrequency' = DecFrequency(mFrequency)
  /\ mValid' = TRUE
  /\ UNCHANGED << mErrorCount, mReadCount >>

\* n < MODBUS_REG_COUNT
TooFew(n) == n < MODBUS_REG_COUNT

\* CRC check and register extraction, then the rest of readWEM3080.
Verify ==
  /\ pc = "verify"
  /\ LET bytes == Bytes(buf)
         n     == NumRegs(bytes, MaxRegs)
     IN  IF ~CrcOk(bytes, TotalLen(bytes))
           THEN PollFail("CrcMismatch") /\ regs' = regs
           ELSE /\ regs' = ExtractRegs(bytes, n)
                /\ IF TooFew(n)
                     THEN PollFail("TooFew")
                     ELSE /\ StoreReading(regs')
                          /\ result' = "Ok"
                          /\ pc' = "done"
                          /\ lastOk' = TRUE
                          /\ lastRegs' = SubSeq(regs', 1, MODBUS_REG_COUNT)
                          /\ UNCHANGED pollsFailed
  /\ UNCHANGED << buf, now, startMs, entryMs, bus, txCount, txFrame, json,
                  snap, pollsStarted, crcVars, sched >>

\* readWEM3080 returns; its locals are gone.
LeaveRead ==
  /\ pc = "done"
  /\ buf' = << >> /\ regs' = << >> /\ result' = "none"
  /\ now' = 0 /\ startMs' = 0 /\ entryMs' = 0
  /\ UNCHANGED << store, bus, txCount, txFrame, json, hist, crcVars, last >>

\* readWEM3080 returns to loop().
Return ==
  /\ LeaveRead
  /\ pc' = "idle"
  /\ UNCHANGED sched

Min(a, b) == IF a < b THEN a ELSE b

\* The millisecond clock advances while a read loop spins.  Every value past
\* the deadline reads the same to the loop; the model keeps the first of them.
Tick ==
  /\ pc \in { "header", "body" }
  /\ ~TimedOut(now, startMs)
  /\ \E d \in TickSteps : now' = Min(now + d, startMs + MODBUS_TIMEOUT + 1)
  /\ UNCHANGED << pc, store, buf, startMs, regs, result, entryMs, bus, txCount,
                  txFrame, json, hist, crcVars, sched, last >>

(***************************************************************************)
(* The slave and the line                                                  *)
(***************************************************************************)
\* The first k bytes of frame f reach the receive queue, each stamped with the
\* number of requests sent so far.
Arrive(f, from, k) == [i \in 1..(k - from) |-> << f[from + i], txCount >>]

\* The answers that may still be on their way when the program is already
\* preparing its next request.
LateFrames == { GoodA, ExceptionReply }

Preparing == pc \in { "flush", "settle", "write" }

ReplyFrames == IF Preparing THEN LateFrames ELSE Frames

\* A late answer arrives whole, or its header first.
ReplyCuts(f) == IF Preparing THEN { 3, Len(f) } ELSE CutPoints(Len(f))

\* The slave answers a request it has received and not answered yet, however
\* late: the first burst of its frame arrives.
SlaveSend(f, k) ==
  /\ repliedTo < txCount
  /\ wireFrame = << >>
  /\ rx' = rx \o Arrive(f, 0, k)
  /\ IF k = Len(f)
       THEN wireFrame' = << >> /\ wireSent' = 0
       ELSE wireFrame' = f /\ wireSent' = k
  /\ repliedTo' = txCount
  /\ UNCHANGED << pc, store, locals, txCount, txFrame, json, hist, crcVars, sched, last >>

SlaveReply == \E f \in ReplyFrames : \E k \in ReplyCuts(f) : SlaveSend(f, k)

\* The next burst of the frame arrives, whatever the program is doing.
SlaveDeliver ==
  /\ wireFrame # << >>
  /\ \E k \in CutPoints(Len(wireFrame)) :
       /\ k > wireSent
       /\ rx' = rx \o Arrive(wireFrame, wireSent, k)
       /\ IF k = Len(wireFrame)
            THEN wireFrame' = << >> /\ wireSent' = 0
            ELSE wireFrame' = wireFrame /\ wireSent' = k
  /\ UNCHANGED << pc, store, locals, repliedTo, txCount, txFrame, json, hist, crcVars, sched, last >>

(***************************************************************************)
(* handleJson, served from loop() between polls                            *)
(***************************************************************************)
Keys       == { API_KEY, "" }
HeapValues == { 180000, 200000 }
RssiValues == { -60 }

handleJson(key, heap, rssi) ==
  /\ pc = "idle"
  /\ json' = IF ~checkApiKey(key)
               THEN [status |-> 403]
               ELSE [status |-> 200,
                     body |-> JsonBody(mValid, mVoltage, mCurrent, mPower, mFwdEnergy,
                                       mRevEnergy, mPowerFactor, mFrequency,
                                       mPowerReverse, mReadCount, mErrorCount, heap, rssi)]
  /\ UNCHANGED << pc, store, locals, bus, txCount, txFrame, hist, crcVars, sched, last >>

HandleJson == \E key \in Keys, heap \in HeapValues, rssi \in RssiValues :
                handleJson(key, heap, rssi)

Next ==
  \/ StartPoll
  \/ FlushStep
  \/ Settle
  \/ Write
  \/ Turnaround
  \/ HeaderIter
  \/ ParseHeader
  \/ BodyIter
  \/ Verify
  \/ Return
  \/ Tick
  \/ SlaveReply
  \/ SlaveDeliver
  \/ HandleJson

Spec == Init /\ [][Next]_vars

(***************************************************************************)
(* loop(): the poll scheduler around readWEM3080, with millis() and        *)
(* lastRead as the 32-bit values they are                                  *)
(***************************************************************************)
\* now - lastRead >= READ_INTERVAL
Due(t, lastv) == Geq32(Sub32(t, lastv), READ_INTERVAL)

\* What the rest of a pass takes: display refresh, OTA and web clients, delay(10).
LoopDelays == { LoopDelayMs, 1974 }

\* The answers of the slave in this specification, each arriving whole.
LoopFrames == { GoodA, ExceptionReply }

\* The program is picked up after setup(), or 15 ms after a poll that was
\* stamped 5000 ms before millis() wraps; the counters count from there.
InitLoop ==
  /\ InitProgram
  /\ \/ /\ ms = W32(SetupMs)
        /\ lastRead = W32(0)
        /\ sincePoll = SetupMs
     \/ /\ lastRead = << 65535, 65536 - 5000 >>
        /\ ms = Add32(lastRead, SettleMs + TurnaroundMs)
        /\ sincePoll = SettleMs + TurnaroundMs

\* loop() from its first line to the call of readWEM3080 or past the skipped call.
LoopTop ==
  /\ pc = "idle"
  /\ pollsStarted < MaxPolls
  /\ ms' = ms
  /\ IF Due(ms, lastRead)
       THEN /\ lastRead' = ms
            /\ pollGap' = sincePoll
            /\ sincePoll' = 0
            /\ idleLoops' = 0
            /\ EnterRead
       ELSE /\ idleLoops < MaxIdleLoops
            /\ idleLoops' = idleLoops + 1
            /\ sincePoll' = sincePoll
            /\ pc' = "rest"
            /\ UNCHANGED << lastRead, pollGap, store, locals, bus, txCount, txFrame,
                            json, hist, crcVars, last >>

\* readWEM3080 returns to loop(): delay(10), the transmission and the wait lie behind.
LoopReturn ==
  /\ LeaveRead
  /\ pc' = "rest"
  /\ ms' = Add32(ms, SettleMs + now)
  /\ sincePoll' = sincePoll + SettleMs + now
  /\ UNCHANGED << lastRead, pollGap, idleLoops >>

\* The rest of loop() after the poll block.
LoopRest(d) ==
  /\ pc = "rest"
  /\ pc' = "idle"
  /\ ms' = Add32(ms, d)
  /\ sincePoll' = sincePoll + d
  /\ UNCHANGED << lastRead, pollGap, idleLoops, store, locals, bus, txCount, txFrame,
                  json, hist, crcVars, last >>

LoopSlaveReply ==
  /\ pc = "header"
  /\ \E f \in LoopFrames : SlaveSend(f, Len(f))

LoopTail == \E d \in LoopDelays : LoopRest(d)

NextLoop ==
  \/ LoopTop
  \/ FlushStep
  \/ Settle
  \/ Write
  \/ Turnaround
  \/ HeaderIter
  \/ ParseHeader
  \/ BodyIter
  \/ Verify
  \/ Tick
  \/ LoopSlaveReply
  \/ LoopReturn
  \/ LoopTail

SpecLoop == InitLoop /\ [][NextLoop]_vars

(***************************************************************************)
(* Termination of a poll: readWEM3080 against a slave that answers, breaks *)
(* off, or babbles, under the fairness of a running processor and clock    *)
(***************************************************************************)
\* A byte of a continuous stream arrives while modbusSendRequest flushes the
\* receive queue; its value is never looked at.
Babble ==
  /\ pc = "flush"
  /\ Len(rx) < MaxQueue
  /\ rx' = Append(rx, << 0, txCount >>)
  /\ UNCHANGED << pc, store, locals, wireFrame, wireSent, repliedTo, txCount, txFrame,
                  json, hist, crcVars, sched, last >>

\* Garbage: a run of 0x07 (announces 7 data bytes that never come), a run of
\* 0xFF (reads as an exception response), a run of 0x00 (a whole 5-byte frame
\* with a wrong CRC).
Noise07 == << 7, 7, 7, 7, 7, 7 >>
NoiseFF == << 255, 255, 255, 255 >>
Noise00 == << 0, 0, 0, 0, 0 >>

LiveFrames == { GoodA, NoRegs, Noise07, NoiseFF, Noise00 }

\* The slave answers with a whole frame or with garbage, or breaks off inside
\* the header or inside the body and stays silent.
LiveReply ==
  /\ repliedTo < txCount
  /\ \E f \in LiveFrames : \E k \in { 2, 4, Len(f) } :
       rx' = rx \o Arrive(f, 0, k)
  /\ repliedTo' = txCount
  /\ UNCHANGED << pc, store, locals, wireFrame, wireSent, txCount, txFrame,
                  json, hist, crcVars, sched, last >>

NextLive ==
  \/ StartPoll
  \/ FlushStep
  \/ Settle
  \/ Write
  \/ Turnaround
  \/ HeaderIter
  \/ ParseHeader
  \/ BodyIter
  \/ Verify
  \/ Return
  \/ Tick
  \/ Babble
  \/ LiveReply

\* The statements of readWEM3080: pc enables one of them at a time.
ReadStep ==
  \/ FlushStep
  \/ Settle
  \/ Write
  \/ Turnaround
  \/ HeaderIter
  \/ ParseHeader
  \/ BodyIter
  \/ Verify
  \/ Return

\* The processor executes the next statement of readWEM3080, and millis() advances.
LiveFair ==
  /\ WF_vars(ReadStep)
  /\ WF_vars(Tick)

SpecLive == Init /\ [][NextLive]_vars /\ LiveFair

(***************************************************************************)
(* The register decoder on its own: the decoding part of readWEM3080       *)
(* applied to 9 registers drawn from DecodeInputs                          *)
(***************************************************************************)
R8Values == { 0, 1, 255, 256, 257, 512, 65280, 65535 }

\* High energy words stay below 2^15: TLC integers are 32 bits wide.
DecodeInputs ==
  { << r0, 1000, r2, r3, r4, 950, r6, 20000, r8 >> :
      r0 \in { 0, 24000, 65535 }, r2 \in { 0, 1500, 65535 },
      r3 \in { 0, 1, 32767 }, r4 \in { 0, 40000, 65535 },
      r6 \in { 0, 2 }, r8 \in R8Values }

InitDecode ==
  /\ pc = "decode"
  /\ regs \in DecodeInputs
  /\ rx = << >> /\ buf = << >> /\ now = 0 /\ startMs = 0 /\ result = "none"
  /\ mVoltage = Zero /\ mCurrent = Zero /\ mPower = Zero /\ mFwdEnergy = Zero
  /\ mRevEnergy = Zero /\ mPowerFactor = Zero /\ mFrequency = Zero
  /\ mPowerReverse = FALSE /\ mValid = FALSE /\ mErrorCount = 0 /\ mReadCount = 0
  /\ txCount = 0 /\ txFrame = << >> /\ wireFrame = << >> /\ wireSent = 0
  /\ repliedTo = 0 /\ json = [status |-> 0] /\ entryMs = 0
  /\ snap = << meas, 0 >> /\ pollsStarted = 0 /\ pollsFailed = 0
  /\ crcIn = << >> /\ crcOut = -1 /\ crcChk = "none"
  /\ ms = W32(SetupMs) /\ lastRead = W32(0) /\ sincePoll = SetupMs /\ pollGap = -1
  /\ idleLoops = 0
  /\ lastOk = FALSE /\ lastRegs = << >>

\* Lines 198-227 of readWEM3080 on the registers at hand.
DecodeStep ==
  /\ pc = "decode"
  /\ StoreReading(regs)
  /\ snap' = << meas, mErrorCount >>
  /\ pc' = "decoded"
  /\ UNCHANGED << locals, bus, txCount, txFrame, json, pollsStarted, pollsFailed,
                  crcVars, sched, last >>

\* The next poll returns the same registers but for the direction register.
DecodeNext ==
  /\ pc = "decoded"
  /\ \E r8 \in R8Values : r8 # regs[9] /\ regs' = [regs EXCEPT ![9] = r8]
  /\ mValid = TRUE
  /\ snap[1] = << Zero, Zero, Zero, Zero, Zero, Zero, Zero, FALSE >>
  /\ pc' = "decode"
  /\ UNCHANGED << store, rx, buf, now, startMs, result, entryMs, wireFrame, wireSent,
                  repliedTo, txCount, txFrame, json, hist, crcVars, sched, last >>

NextDecode == DecodeStep \/ DecodeNext

SpecDecode == InitDecode /\ [][NextDecode]_vars

(***************************************************************************)
(* The CRC engine on its own: modbusCalcCRC16, the request frame of        *)
(* modbusSendRequest and the CRC comparison of modbusReadResponse applied  *)
(* to byte sequences built from CrcBytes                                   *)
(***************************************************************************)
CrcBytes == { 0, 1, 3, 128, 255 }

\* The reference: CRC-16/MODBUS in its catalogue form, polynomial 0x8005 fed
\* most significant bit first, init 0xFFFF, input and output bit-reflected.
RECURSIVE Reflect(_, _)
Reflect(x, bits) ==
  IF bits = 0 THEN 0
  ELSE (x % 2) * Pow2(bits - 1) + Reflect(x \div 2, bits - 1)

RECURSIVE RefShift(_, _)
RefShift(crc, j) ==
  IF j = 0 THEN crc
  ELSE IF crc >= 32768 THEN RefShift(Xor((crc * 2) % 65536, 32773), j - 1)
                       ELSE RefShift(crc * 2, j - 1)

RECURSIVE RefFold(_, _, _)
RefFold(crc, bytes, i) ==
  IF i > Len(bytes) \/ crc > 65535 THEN crc
  ELSE RefFold(RefShift(Xor(crc, Reflect(bytes[i], 8) * 256), 8), bytes, i + 1)

RefCRC16(bytes) == Reflect(RefFold(65535, bytes, 1), 16)

CrcFeed ==
  /\ Len(crcIn) < MaxCrcLen
  /\ \E b \in CrcBytes : crcIn' = Append(crcIn, b)
  /\ crcOut' = -1 /\ crcChk' = "none"
  /\ UNCHANGED << pc, store, locals, bus, txCount, txFrame, json, hist, sched, last >>

\* The sender appends the reference CRC, low byte first.
CrcSeal ==
  /\ Len(crcIn) >= 3 /\ Len(crcIn) <= MaxCrcLen
  /\ crcIn' = crcIn \o << Lo8(RefCRC16(crcIn)), Hi8(RefCRC16(crcIn)) >>
  /\ crcOut' = -1 /\ crcChk' = "none"
  /\ UNCHANGED << pc, store, locals, bus, txCount, txFrame, json, hist, sched, last >>

CrcRun ==
  /\ crcOut = -1
  /\ crcOut' = modbusCalcCRC16(crcIn)
  /\ UNCHANGED << pc, store, locals, bus, txCount, txFrame, json, hist, crcIn, crcChk,
                  sched, last >>

\* modbusSendRequest builds its frame.
CrcRequest ==
  /\ txFrame = << >>
  /\ \E slaveId \in { MODBUS_SLAVE_ID, 247 } :
       \E req \in { << MODBUS_REG_START, MODBUS_REG_COUNT >>, << 65535, 256 >> } :
         txFrame' = RequestFrame(slaveId, req[1], req[2])
  /\ UNCHANGED << pc, store, locals, bus, txCount, json, hist, crcVars, sched, last >>

\* modbusReadResponse compares the trailing two bytes of a frame of crcIn's length.
CrcCheck ==
  /\ Len(crcIn) >= 3
  /\ crcChk = "none"
  /\ crcChk' = IF CrcOk(crcIn, Len(crcIn)) THEN "match" ELSE "mismatch"
  /\ UNCHANGED << pc, store, locals, bus, txCount, txFrame, json, hist, crcIn, crcOut,
                  sched, last >>

NextCrc == CrcFeed \/ CrcSeal \/ CrcRun \/ CrcRequest \/ CrcCheck

SpecCrc == Init /\ [][NextCrc]_vars

(***************************************************************************)
(* Properties                                                              *)
(***************************************************************************)
Failures == { "HeaderTimeout", "BodyTimeout", "Exception", "TooLarge", "CrcMismatch",
              "TooFew" }

PollOk     == pc = "done" /\ result = "Ok"
PollFailed == pc = "done" /\ result # "Ok"

\* C1: a poll that fails, whatever the kind of failure, has incremented the error
\* counter by exactly one, leaves the validity flag false and leaves all eight
\* stored measurement fields as they were when the poll started.
C1_FailureLeavesReading ==
  PollFailed =>
    /\ result \in Failures
    /\ mErrorCount = snap[2] + 1
    /\ mValid = FALSE
    /\ meas = snap[1]

\* C1 witness: a poll timed out in the body while a reading of an earlier poll was stored.
C1_Witness ==
  /\ PollFailed
  /\ result = "BodyTimeout"
  /\ mVoltage # Zero /\ mPower # Zero /\ mPowerReverse

\* C2: a fully received frame whose trailing bytes are not the CRC16 of the
\* bytes before them, low byte first, is a failed poll and never a valid reading.
C2_BadCrcRejected ==
  (/\ pc = "done"
   /\ Len(buf) >= 3
   /\ Len(buf) = TotalLen(Bytes(buf))
   /\ LET bytes == Bytes(buf)
          crc   == RefCRC16(SubSeq(bytes, 1, Len(bytes) - 2))
      IN  bytes[Len(bytes) - 1] # Lo8(crc) \/ bytes[Len(bytes)] # Hi8(crc))
  => (result \in Failures /\ mValid = FALSE)

\* C2 witness: the frame with plausible data and a damaged high CRC byte was read to the end.
C2_Witness ==
  /\ pc = "done"
  /\ Bytes(buf) = BadCrcHi
  /\ result = "CrcMismatch"

\* C3: the receive buffer never holds more than 128 bytes and the register
\* array never more than 16 registers; the body is read only when
\* 3 + byteCount + 2 fits the buffer, and an oversized header is refused with
\* nothing stored beyond the three header bytes.
C3_NoOverflow ==
  /\ Len(buf) <= BufSize
  /\ Len(regs) <= MaxRegs
  /\ pc \in { "body", "verify" } => /\ TotalLen(Bytes(buf)) <= BufSize
                                    /\ Len(buf) <= TotalLen(Bytes(buf))
  /\ (pc \in { "parse", "body", "verify", "done" } /\ Len(buf) >= 3
      /\ ~IsException(Bytes(buf)) /\ 3 + ByteCount(Bytes(buf)) + 2 > BufSize)
     => /\ Len(buf) = 3
        /\ pc \in { "parse", "done" }
        /\ pc = "done" => result \in { "TooLarge", "HeaderTimeout" }

\* C3 witness: byte count 124 was refused after the header with the rest of
\* the frame waiting in the receive queue.
C3_Witness ==
  /\ pc = "done"
  /\ result = "TooLarge"
  /\ ByteCount(Bytes(buf)) = 124
  /\ Len(rx) > BufSize - 3

\* C4 (as claimed): a poll stores a valid reading only when the response
\* carried exactly 9 registers, byte count 18.
C4_ExactlyNineRegisters ==
  PollOk => ByteCount(Bytes(buf)) = 2 * MODBUS_REG_COUNT

\* C5 (as claimed): with the validity flag false, every numeric field of the
\* JSON object that comes from the reading store and the counters is 0.
C5_AllNumericZero ==
  (json.status = 200 /\ ~json.body.valid) =>
    /\ json.body.voltage = 0 /\ json.body.current = 0 /\ json.body.power = 0
    /\ json.body.fwd_energy = 0 /\ json.body.rev_energy = 0
    /\ json.body.power_factor = 0 /\ json.body.frequency = 0
    /\ json.body.reads = 0 /\ json.body.errors = 0

\* C5 (amended): with the validity flag false, the JSON object says valid:false
\* and its seven measurement fields are 0; reads and errors are the counters.
C5_MeasurementsZero ==
  json.status = 200 =>
    /\ json.body.valid = mValid
    /\ json.body.reads = mReadCount /\ json.body.errors = mErrorCount
    /\ ~json.body.valid =>
         /\ json.body.voltage = 0 /\ json.body.current = 0 /\ json.body.power = 0
         /\ json.body.fwd_energy = 0 /\ json.body.rev_energy = 0
         /\ json.body.power_factor = 0 /\ json.body.frequency = 0

\* C5 witness: the endpoint answered while a stale reading was stored and flagged invalid.
C5_Witness ==
  /\ json.status = 200
  /\ ~json.body.valid
  /\ mVoltage # Zero /\ mFwdEnergy # Zero /\ mFrequency # Zero
  /\ json.body.errors = 1

\* C6: the read counter is the number of polls started, the error counter the
\* number of polls that failed, so errors <= reads; no step lowers either.
C6_Counters ==
  /\ [](/\ mReadCount = pollsStarted
        /\ mErrorCount = pollsFailed
        /\ mErrorCount <= mReadCount)
  /\ [][mReadCount' >= mReadCount /\ mErrorCount' >= mErrorCount]_vars

\* C6 witness: two polls, of which exactly one failed.
C6_Witness ==
  pc = "idle" /\ mReadCount = 2 /\ mErrorCount = 1 /\ pollsFailed = 1

\* C7: a successful poll stores voltage = r0/100, current = r1/100, forward
\* energy = (r3*65536 + r4)/800, power factor = r5/1000, reverse energy =
\* (r6*65536 + r7)/800, reverse flag = high byte of r8 nonzero, power = -r2 when
\* reversed and +r2 otherwise, frequency 50; the registers of the next poll,
\* differing only in r8, change nothing but power sign and direction, and those
\* only when the high byte's being zero changed.
C7_Decoding ==
  pc = "decoded" =>
    LET hi8 == regs[9] \div 256 IN
    /\ mVoltage = Frac(regs[1], 100)
    /\ mCurrent = Frac(regs[2], 100)
    /\ mFwdEnergy = Frac(regs[4] * 65536 + regs[5], 800)
    /\ mPowerFactor = Frac(regs[6], 1000)
    /\ mRevEnergy = Frac(regs[7] * 65536 + regs[8], 800)
    /\ mPowerReverse = (hi8 # 0)
    /\ mPower = IF hi8 # 0 THEN Frac(0 - regs[3], 1) ELSE Frac(regs[3], 1)
    /\ mFrequency = Frac(50, 1)
    /\ mValid = TRUE
    /\ regs = << 24000, 1000, 1500, 0, 40000, 950, 0, 20000, 0 >> =>
         /\ mVoltage = << 240, 1 >> /\ mCurrent = << 10, 1 >> /\ mPower = << 1500, 1 >>
         /\ mFwdEnergy = << 50, 1 >> /\ mPowerFactor = << 19, 20 >>
         /\ mRevEnergy = << 25, 1 >> /\ mPowerReverse = FALSE
    /\ snap[1][7] # Zero =>
         /\ << mVoltage, mCurrent, mFwdEnergy, mRevEnergy, mPowerFactor, mFrequency >>
              = << snap[1][1], snap[1][2], snap[1][4], snap[1][5], snap[1][6], snap[1][7] >>
         /\ mPowerReverse = snap[1][8] => mPower = snap[1][3]
         /\ mPowerReverse # snap[1][8] => mPower = Frac(0 - snap[1][3][1], 1)

\* C7 witness: a second decode with r8 = 0x0101 after one that also had a
\* non-zero high byte in r8, with non-zero power and a 32-bit energy.
C7_Witness ==
  /\ pc = "decoded"
  /\ snap[1][7] # Zero
  /\ regs[9] = 257
  /\ snap[1][8] = TRUE
  /\ mPower = Frac(-1500, 1)
  /\ mFwdEnergy = Frac(65536 + 40000, 800)

\* C8: modbusCalcCRC16 returns the reference Modbus CRC16 of its input; the
\* request frame is its 6-byte header followed by that value's low byte, then
\* high byte; a response's CRC comparison succeeds exactly when its trailing
\* two bytes are that value's low byte, then high byte.
C8_CrcIsReference ==
  /\ crcOut # -1 => crcOut = RefCRC16(crcIn)
  /\ txFrame # << >> =>
       LET hdr == SubSeq(txFrame, 1, 6) IN
       /\ Len(txFrame) = 8
       /\ txFrame[7] = Lo8(RefCRC16(hdr))
       /\ txFrame[8] = Hi8(RefCRC16(hdr))
  /\ crcChk # "none" =>
       LET n    == Len(crcIn)
           body == SubSeq(crcIn, 1, n - 2)
       IN  (crcChk = "match") <=>
             (crcIn[n - 1] = Lo8(RefCRC16(body)) /\ crcIn[n] = Hi8(RefCRC16(body)))

\* C8 witness: a sealed frame was computed and matched, and the request of the
\* poll (slave 1, address 0x0048, 9 registers) carries CRC bytes 05 DA.
C8_Witness ==
  /\ crcChk = "match"
  /\ crcOut # -1
  /\ Len(crcIn) = 5
  /\ txFrame = << 1, 3, 0, 72, 0, 9, 5, 218 >>

\* C9 (as claimed): every byte modbusReadResponse has taken into its buffer
\* arrived after the request of the current poll was transmitted.
C9_NoStaleByteParsed ==
  \A i \in 1..Len(buf) : buf[i][2] = txCount

C11_OneRequestPerInterval ==
  /\ [](/\ txCount = pollsStarted - (IF pc \in { "flush", "settle", "write" } THEN 1 ELSE 0)
        /\ Sub32(ms, lastRead) = W32(sincePoll)
        /\ pollsStarted >= 1 => pollGap >= READ_INTERVAL)
  /\ [][pollsStarted' # pollsStarted =>
         /\ pc = "idle" /\ pc' = "flush"
         /\ pollsStarted' = pollsStarted + 1
         /\ txCount = pollsStarted
         /\ lastRead' = ms]_vars

\* C11 witness: a poll stamped exactly 3000 ms after the one before it, with
\* millis() wrapped in between, has sent its one request and timed out.
C11_Witness ==
  /\ pc = "done"
  /\ result = "HeaderTimeout"
  /\ pollGap = READ_INTERVAL
  /\ lastRead[1] = 0 /\ lastRead[2] < SetupMs
  /\ txCount = pollsStarted

C13_ValidIsLastPoll ==
  pc = "idle" =>
    /\ pollsStarted = 0 => ~mValid
    /\ mValid = lastOk
    /\ mValid =>
         LET r   == lastRegs
             hi8 == r[9] \div 256
         IN  /\ Len(r) = MODBUS_REG_COUNT
             /\ mVoltage = Frac(r[1], 100)
             /\ mCurrent = Frac(r[2], 100)
             /\ mPower = IF hi8 # 0 THEN Frac(0 - r[3], 1) ELSE Frac(r[3], 1)
             /\ mFwdEnergy = Frac(r[4] * 65536 + r[5], 800)
             /\ mRevEnergy = Frac(r[7] * 65536 + r[8], 800)
             /\ mPowerFactor = Frac(r[6], 1000)
             /\ mPowerReverse = (hi8 # 0)

\* C13 witness: after a failed first poll the second poll succeeded with the
\* reverse-flow frame, and the store holds its values.
C13_Witness ==
  /\ pc = "idle"
  /\ pollsStarted = 2 /\ pollsFailed = 1
  /\ mValid
  /\ lastRegs = << 23050, 725, 1640, 1, 8, 1000, 2, 16, 256 >>
  /\ mPower = Frac(-1640, 1)

\* C14 (as claimed): a poll stores a valid reading only from a frame whose first
\* byte is the slave id of the request and whose second byte is function code
\* 0x03.
C14_OnlyOwnSlaveAndFc ==
  PollOk => (Bytes(buf)[1] = MODBUS_SLAVE_ID /\ Bytes(buf)[2] = 3)

====
